---- MODULE Spec2Model ----
(***************************************************************************)
(* State machine of the App component of src/App.tsx: the Input Text       *)
(* (name), the Greeting Result (greeting), the requests awaiting the       *)
(* external generateContent call, and the rendered controls.               *)
(*                                                                         *)
(* Strings are sequences over a small alphabet; a fixed literal of the     *)
(* source is a one-token sequence.  A JavaScript value that may be null or *)
(* undefined is a tagged tuple: <<"null">>, <<"undefined">> or             *)
(* <<"string", s>>.                                                        *)
(***************************************************************************)
EXTENDS Integers, Sequences, FiniteSets, TLC

\* ------------------------------------------------------------------ bounds
MaxLen == 2          \* longest Input Text the user types
MaxInFlight == 2     \* most requests awaiting the API at once

\* ------------------------------------------------------- values and strings
Chars == {" ", "a"}
Whitespace == {" ", "\t", "\n"}

RECURSIVE StringsUpTo(_)
StringsUpTo(n) ==
    IF n = 0 THEN {<<>>}
    ELSE LET shorter == StringsUpTo(n - 1)
         IN  shorter \cup {Append(s, c) : s \in {t \in shorter : Len(t) = n - 1}, c \in Chars}

Strings == StringsUpTo(MaxLen)

\* the values one keystroke away from s: a character typed at the end, or
\* the last character deleted
Keystrokes(s) ==
    {Append(s, c) : c \in {d \in Chars : Len(s) < MaxLen}}
        \cup {SubSeq(s, 1, Len(s) - 1) : t \in {u \in {s} : u # <<>>}}

Null == <<"null">>
Undefined == <<"undefined">>
JSString(s) == <<"string", s>>

\* a nullish test (??) in place of the truthiness test (||)
Truthy_Nullish(v) == v[1] = "string"

\* JavaScript truthiness of a string | null | undefined value
Truthy(v) == v[1] = "string" /\ v[2] # <<>>

\* String.prototype.trim: drop leading and trailing whitespace
RECURSIVE TrimStart(_)
TrimStart(s) ==
    IF s # <<>> /\ Head(s) \in Whitespace THEN TrimStart(Tail(s)) ELSE s

RECURSIVE TrimEnd(_)
TrimEnd(s) ==
    IF s # <<>> /\ s[Len(s)] \in Whitespace
    THEN TrimEnd(SubSeq(s, 1, Len(s) - 1)) ELSE s

\* the emptiness check without .trim()
Trim_None(s) == s

Trim(s) == TrimEnd(TrimStart(s))

\* ------------------------------------------------------- program constants
FallbackText == <<"Hello World! (Fallback)">>
FailureMessage == <<"Failed to generate greeting. Please try again later.">>
ModelId == "gemini-3-flash-preview"
TemperatureTenths == 8
TopPTenths == 9

\* the template literal of the prompt, filled with the closure's name
Prompt(n) ==
    <<"Generate a creative, friendly \"Hello World\" style greeting for a person named ">>
    \o n \o <<". Keep it concise but enthusiastic.">>

Request(n) ==
    [model |-> ModelId, contents |-> Prompt(n),
     config |-> [temperature |-> TemperatureTenths, topP |-> TopPTenths]]

\* what the external call can answer: response.text, or the thrown cause
Payloads == {Undefined, JSString(<<>>), JSString(<<"Hi Alice!">>)}
Causes == {"network", "auth"}
Keys == {"Enter", "a"}

\* ------------------------------------------------------------------- state
VARIABLES
    ctorThrows,  \* whether new GoogleGenAI({ apiKey: process.env.API_KEY }) throws in this build
    name,        \* Input Text
    greeting,    \* Greeting Result: [text, isLoading, error]
    inflight,    \* requests dispatched and not yet resolved, in dispatch order
    latest,      \* fate of the request dispatched last: none/pending/succeeded/failed
    logged,      \* what the handler that ran last passed to console.error, or "none"
    view,        \* what the last render produced
    lastEvent,   \* the handler that ran last, and its input
    settled      \* progress of two back-to-back submissions of one Input Text

vars == <<ctorThrows, name, greeting, inflight, latest, logged, view, lastEvent, settled>>

\* Bookkeeping of a sequential pair of requests: the first is dispatched
\* with nothing in flight, resolves alone, and the second is dispatched
\* right after with the Input Text not edited in between.  `outcome` and
\* `result` are what the API gave the first request and the Greeting Result
\* it ended in; `second` is what the API gave the second one.
NoPair == [stage |-> "none"]

PairOnDispatch(s, idle) ==
    IF ~idle THEN NoPair
    ELSE IF s.stage = "firstDone"
         THEN [stage |-> "second", outcome |-> s.outcome, result |-> s.result]
         ELSE [stage |-> "first"]

PairOnCompletion(s, alone, outcome, result) ==
    IF ~alone THEN NoPair
    ELSE IF s.stage = "first"
         THEN [stage |-> "firstDone", outcome |-> outcome, result |-> result]
    ELSE IF s.stage = "second"
         THEN [stage |-> "secondDone", outcome |-> s.outcome, result |-> s.result,
               second |-> outcome]
    ELSE NoPair

InitialGreeting == [text |-> <<>>, isLoading |-> FALSE, error |-> Null]

\* the dispatch update without the spread of prev
SetLoading_DropsText(prev) == [text |-> <<>>, isLoading |-> TRUE, error |-> Null]

\* the dispatch update without error: null
SetLoading_KeepsError(prev) == [prev EXCEPT !.isLoading = TRUE]

\* the updater of the dispatch: prev => ({ ...prev, isLoading: true, error: null })
SetLoading(prev) == [prev EXCEPT !.isLoading = TRUE, !.error = Null]

\* the success update spreading the previous result, isLoading not reset
SuccessGreeting_StillLoading(responseText) ==
    [greeting EXCEPT !.text = IF Truthy(responseText) THEN responseText[2] ELSE FallbackText,
                     !.error = Null]

\* the success update appending to the text already shown
SuccessGreeting_Accumulates(responseText) ==
    [text |-> greeting.text \o (IF Truthy(responseText) THEN responseText[2] ELSE FallbackText),
     isLoading |-> FALSE, error |-> Null]

\* the object written on the success path
SuccessGreeting(responseText) ==
    LET resultText == IF Truthy(responseText) THEN responseText[2] ELSE FallbackText
    IN  [text |-> resultText, isLoading |-> FALSE, error |-> Null]

\* the failure update with isLoading left true
FailureGreeting_StillLoading ==
    [text |-> <<>>, isLoading |-> TRUE, error |-> JSString(FailureMessage)]

\* the failure update spreading the previous result, text not cleared
FailureGreeting_KeepsText ==
    [greeting EXCEPT !.isLoading = FALSE, !.error = JSString(FailureMessage)]

\* the object written in the catch block
FailureGreeting ==
    [text |-> <<>>, isLoading |-> FALSE, error |-> JSString(FailureMessage)]

\* the disabled test on the raw name
ButtonDisabled_NoTrim(n, g) == g.isLoading \/ n = <<>>

\* the disabled test without greeting.isLoading
ButtonDisabled_IgnoresLoading(n, g) == ~Truthy(JSString(Trim(n)))

\* disabled={greeting.isLoading || !name.trim()}
ButtonDisabled(n, g) == g.isLoading \/ ~Truthy(JSString(Trim(n)))

\* the Result Area showing the placeholder while a request is loading
ResultArea_BlankWhileLoading(g) ==
    IF g.isLoading THEN [kind |-> "placeholder", shown |-> <<>>]
    ELSE IF Truthy(g.error) THEN [kind |-> "error", shown |-> g.error[2]]
    ELSE IF Truthy(JSString(g.text)) THEN [kind |-> "greeting", shown |-> g.text]
    ELSE [kind |-> "placeholder", shown |-> <<>>]

\* the Result Area's nested conditional
ResultArea(g) ==
    IF Truthy(g.error) THEN [kind |-> "error", shown |-> g.error[2]]
    ELSE IF Truthy(JSString(g.text)) THEN [kind |-> "greeting", shown |-> g.text]
    ELSE [kind |-> "placeholder", shown |-> <<>>]

Render(n, g) ==
    [value |-> n, disabled |-> ButtonDisabled(n, g), spinner |-> g.isLoading,
     area |-> ResultArea(g)]

Init ==
    /\ ctorThrows \in BOOLEAN
    /\ name = <<>>
    /\ greeting = InitialGreeting
    /\ inflight = <<>>
    /\ latest = "none"
    /\ logged = "none"
    /\ view = Render(<<>>, InitialGreeting)
    /\ lastEvent = [op |-> "mount"]
    /\ settled = NoPair

\* ---------------------------------------------------------------- actions
\* onChange={(e) => setName(e.target.value)}
OnChange(v) ==
    /\ v # name
    /\ name' = v
    /\ view' = Render(v, greeting)
    /\ lastEvent' = [op |-> "change"]
    /\ settled' = NoPair
    /\ logged' = "none"
    /\ UNCHANGED <<ctorThrows, greeting, inflight, latest>>

\* generateGreeting up to its first await, run from the trigger `via`
generateGreeting(via) ==
    IF ~Truthy(JSString(Trim(name)))
    THEN /\ lastEvent' = [op |-> via, accepted |-> FALSE]
         /\ logged' = "none"
         /\ UNCHANGED <<ctorThrows, name, greeting, inflight, latest, view, settled>>
    ELSE /\ IF ~ctorThrows
            THEN /\ Len(inflight) < MaxInFlight
                 /\ greeting' = SetLoading(greeting)
                 /\ inflight' = Append(inflight, Request(name))
                 /\ latest' = "pending"
                 /\ logged' = "none"
                 /\ settled' = PairOnDispatch(settled, inflight = <<>>)
            ELSE /\ greeting' = FailureGreeting
                 /\ inflight' = inflight
                 /\ latest' = "failed"
                 /\ logged' = "constructor"
                 /\ settled' = PairOnCompletion(PairOnDispatch(settled, inflight = <<>>),
                                                inflight = <<>>,
                                                <<"threw", "constructor">>, greeting')
         /\ view' = Render(name, greeting')
         /\ lastEvent' = [op |-> via, accepted |-> TRUE,
                          ctor |-> IF ctorThrows THEN "throws" ELSE "ok"]
         /\ UNCHANGED <<ctorThrows, name>>

\* onClick={generateGreeting}; a disabled button delivers no click
Click ==
    /\ ~view.disabled
    /\ generateGreeting("click")

\* the key handler refusing Enter while the button is disabled
handleKeyPress_Guarded(key) ==
    IF key = "Enter" /\ ~view.disabled
    THEN generateGreeting("enter")
    ELSE IF key = "Enter"
         THEN /\ lastEvent' = [op |-> "enter", accepted |-> FALSE]
              /\ logged' = "none"
              /\ UNCHANGED <<ctorThrows, name, greeting, inflight, latest, view, settled>>
         ELSE UNCHANGED vars

\* onKeyDown={handleKeyPress}
handleKeyPress(key) ==
    IF key = "Enter"
    THEN generateGreeting("enter")
    ELSE UNCHANGED vars

Remove(s, i) == SubSeq(s, 1, i - 1) \o SubSeq(s, i + 1, Len(s))

\* the success path applying only the response of the request dispatched last
Resolve_IgnoresStale(i, responseText) ==
    /\ i \in 1..Len(inflight)
    /\ greeting' = IF i = Len(inflight) /\ latest = "pending"
                   THEN SuccessGreeting(responseText) ELSE greeting
    /\ inflight' = Remove(inflight, i)
    /\ latest' = IF i = Len(inflight) /\ latest = "pending" THEN "succeeded" ELSE latest
    /\ view' = Render(name, greeting')
    /\ lastEvent' = [op |-> "resolve", text |-> responseText]
    /\ settled' = NoPair
    /\ logged' = "none"
    /\ UNCHANGED <<ctorThrows, name>>

\* the success path also clearing the input field
Resolve_ClearsInput(i, responseText) ==
    /\ i \in 1..Len(inflight)
    /\ greeting' = SuccessGreeting(responseText)
    /\ inflight' = Remove(inflight, i)
    /\ latest' = IF i = Len(inflight) /\ latest = "pending" THEN "succeeded" ELSE latest
    /\ name' = <<>>
    /\ view' = Render(name', greeting')
    /\ lastEvent' = [op |-> "resolve", text |-> responseText]
    /\ settled' = NoPair
    /\ logged' = "none"
    /\ UNCHANGED ctorThrows

\* the awaited call of request i returns a response
Resolve(i, responseText) ==
    /\ i \in 1..Len(inflight)
    /\ greeting' = SuccessGreeting(responseText)
    /\ inflight' = Remove(inflight, i)
    /\ latest' = IF i = Len(inflight) /\ latest = "pending" THEN "succeeded" ELSE latest
    /\ view' = Render(name, greeting')
    /\ lastEvent' = [op |-> "resolve", text |-> responseText]
    /\ settled' = PairOnCompletion(settled, Len(inflight) = 1,
                                   <<"returned", responseText>>, greeting')
    /\ logged' = "none"
    /\ UNCHANGED <<ctorThrows, name>>

\* the catch block issuing the failed call again
Reject_Retries(i, cause) ==
    /\ i \in 1..Len(inflight)
    /\ greeting' = FailureGreeting
    /\ logged' = cause
    /\ inflight' = Append(Remove(inflight, i), inflight[i])
    /\ latest' = latest
    /\ view' = Render(name, greeting')
    /\ lastEvent' = [op |-> "reject", cause |-> cause]
    /\ settled' = NoPair
    /\ UNCHANGED <<ctorThrows, name>>

\* the awaited call of request i throws
Reject(i, cause) ==
    /\ i \in 1..Len(inflight)
    /\ greeting' = FailureGreeting
    /\ logged' = cause
    /\ inflight' = Remove(inflight, i)
    /\ latest' = IF i = Len(inflight) /\ latest = "pending" THEN "failed" ELSE latest
    /\ view' = Render(name, greeting')
    /\ lastEvent' = [op |-> "reject", cause |-> cause]
    /\ settled' = PairOnCompletion(settled, Len(inflight) = 1,
                                   <<"threw", cause>>, greeting')
    /\ UNCHANGED <<ctorThrows, name>>

Next ==
    \/ \E v \in Keystrokes(name) : OnChange(v)
    \/ Click
    \/ \E key \in Keys : handleKeyPress(key)
    \/ \E i \in 1..MaxInFlight : \E t \in Payloads : Resolve(i, t)
    \/ \E i \in 1..MaxInFlight : \E c \in Causes : Reject(i, c)

Spec == Init /\ [][Next]_vars

\* The widget driven through the button alone: Enter is never pressed (the
\* other keys change nothing), every submission is a click on the enabled
\* button.
NextClickOnly ==
    \/ \E v \in Keystrokes(name) : OnChange(v)
    \/ Click
    \/ \E i \in 1..MaxInFlight : \E t \in Payloads : Resolve(i, t)
    \/ \E i \in 1..MaxInFlight : \E c \in Causes : Reject(i, c)

SpecClickOnly == Init /\ [][NextClickOnly]_vars

\* The awaited call of one of the requests in flight returns or throws.
Settle ==
    \/ \E i \in 1..MaxInFlight : \E t \in Payloads : Resolve(i, t)
    \/ \E i \in 1..MaxInFlight : \E c \in Causes : Reject(i, c)

\* While requests are in flight, one of the API calls eventually returns or
\* throws, and the event loop then runs the continuation of its await.
FairSpec == Spec /\ WF_vars(Settle)

\* ------------------------------------------------------------ vocabulary
Submissions == {"click", "enter"}
AllWhitespace(s) == \A k \in 1..Len(s) : s[k] \in Whitespace
Submitted == lastEvent.op \in Submissions
Accepted == Submitted /\ lastEvent.accepted
Dispatched == Accepted /\ lastEvent.ctor = "ok"
ConstructorThrew == Accepted /\ lastEvent.ctor = "throws"

\* C1: a submission (click or Enter) while the Input Text is empty or
\* whitespace-only changes none of text, isLoading, error, leaves the Input
\* Text alone and issues no API call.
C1_BlankSubmissionIsNoOp ==
    [][(lastEvent'.op \in Submissions /\ AllWhitespace(name))
          => /\ greeting'.text = greeting.text
             /\ greeting'.isLoading = greeting.isLoading
             /\ greeting'.error = greeting.error
             /\ inflight' = inflight
             /\ name' = name
             /\ ~lastEvent'.accepted]_vars

C1_Witness ==
    /\ Submitted
    /\ ~lastEvent.accepted
    /\ name # <<>>
    /\ AllWhitespace(name)
    /\ greeting.error # Null

\* C2 as stated: every submission with a non-blank Input Text yields, in one
\* update, isLoading = true and error = null with text as it was before.
C2_Original ==
    [][(lastEvent'.op \in Submissions /\ ~AllWhitespace(name))
          => /\ greeting'.isLoading
             /\ greeting'.error = Null
             /\ greeting'.text = greeting.text]_vars

\* C2 amended: a submission with a non-blank Input Text whose client
\* construction succeeds yields, in one update and with its request still
\* awaiting the API, isLoading = true and error = null with text as it was
\* before; when the construction throws, the same update ends in the failure
\* result and no request is dispatched.
C2_DispatchSetsLoading ==
    [][(lastEvent'.op \in Submissions /\ ~AllWhitespace(name))
          => /\ lastEvent'.accepted
             /\ lastEvent'.ctor = "ok"
                  => /\ greeting'.isLoading
                     /\ greeting'.error = Null
                     /\ greeting'.text = greeting.text
                     /\ Len(inflight') = Len(inflight) + 1
                     /\ inflight'[Len(inflight')] = Request(name)
             /\ lastEvent'.ctor = "throws"
                  => /\ ~greeting'.isLoading
                     /\ greeting'.error = JSString(FailureMessage)
                     /\ greeting'.text = <<>>
                     /\ inflight' = inflight]_vars

C2_Witness ==
    /\ Dispatched
    /\ greeting.isLoading
    /\ greeting.error = Null
    /\ greeting.text # <<>>
    /\ inflight # <<>>

\* C3: right after a request resolves successfully with a non-empty text
\* payload P, the Greeting Result is exactly { text: P, isLoading: false,
\* error: null }.
C3_SuccessShowsPayload ==
    (lastEvent.op = "resolve" /\ lastEvent.text[1] = "string" /\ lastEvent.text[2] # <<>>)
        => greeting = [text |-> lastEvent.text[2], isLoading |-> FALSE, error |-> Null]

C3_Witness ==
    /\ lastEvent.op = "resolve"
    /\ lastEvent.text = JSString(<<"Hi Alice!">>)
    /\ greeting.text = <<"Hi Alice!">>
    /\ inflight # <<>>

\* C4: right after a request resolves successfully with an empty or absent
\* text payload, the Greeting Result is exactly { text: "Hello World!
\* (Fallback)", isLoading: false, error: null }, and no successful resolution
\* leaves text empty.
C4_EmptyPayloadFallsBack ==
    lastEvent.op = "resolve"
        => /\ greeting.text # <<>>
           /\ (lastEvent.text = Undefined \/ lastEvent.text = JSString(<<>>))
                => greeting = [text |-> <<"Hello World! (Fallback)">>,
                               isLoading |-> FALSE, error |-> Null]

C4_Witness ==
    /\ lastEvent.op = "resolve"
    /\ lastEvent.text = JSString(<<>>)
    /\ greeting.text = <<"Hello World! (Fallback)">>

\* C5: right after a request fails, by a rejection of the call or by a throw
\* while constructing the client, the Greeting Result is exactly { text: '',
\* isLoading: false, error: the fixed message }, the cause going to the
\* console only.
C5_FailureShowsFixedMessage ==
    (lastEvent.op = "reject" \/ ConstructorThrew)
        => /\ greeting = [text |-> <<>>, isLoading |-> FALSE,
                          error |-> JSString(<<"Failed to generate greeting. Please try again later.">>)]
           /\ lastEvent.op = "reject" => logged = lastEvent.cause
           /\ ConstructorThrew => logged = "constructor"

C5_Witness ==
    /\ lastEvent.op = "reject"
    /\ lastEvent.cause = "auth"
    /\ latest = "succeeded"
    /\ greeting.error = JSString(FailureMessage)

\* C6: the rendered button is disabled exactly when isLoading is true or the
\* Input Text is empty or whitespace-only.
C6_ButtonDisabledIff ==
    view.disabled <=> (greeting.isLoading \/ AllWhitespace(name))

C6_Witness ==
    /\ view.disabled
    /\ ~greeting.isLoading
    /\ name # <<>>

\* C7: isLoading is true exactly when some dispatched request has not yet
\* resolved.
C7_LoadingIffInFlight ==
    greeting.isLoading <=> inflight # <<>>

\* C8: isLoading = true implies error = null.
C8_LoadingImpliesNoError ==
    greeting.isLoading => greeting.error = Null

C8_Witness ==
    /\ greeting.isLoading
    /\ Len(inflight) >= 2
    /\ lastEvent.op = "enter"
    /\ greeting.error = Null

\* C9: text is never non-empty while error is non-null.
C9_TextAndErrorExclusive ==
    ~(greeting.text # <<>> /\ greeting.error # Null)

C9_Witness ==
    /\ lastEvent.op = "reject"
    /\ latest = "succeeded"
    /\ greeting.error # Null
    /\ greeting.text = <<>>

\* C10: error is non-null only when the request dispatched last has failed.
C10_ErrorOnlyIfLatestFailed ==
    greeting.error # Null => latest = "failed"

SameOutcome(a, b) == a[1] = b[1] /\ (a[1] = "returned" => a[2] = b[2])

\* C11: when one Input Text is submitted twice in a row, the second time
\* right after the first request resolved, and the API gives the same outcome
\* both times, the Greeting Result after the second resolution equals the one
\* after the first, whatever the Greeting Result was before the first.
C11_SequentialResubmissionSameResult ==
    (settled.stage = "secondDone" /\ SameOutcome(settled.outcome, settled.second))
        => greeting = settled.result

C11_Witness ==
    /\ settled.stage = "secondDone"
    /\ settled.outcome = <<"returned", JSString(<<"Hi Alice!">>)>>
    /\ settled.second = settled.outcome
    /\ lastEvent.op = "resolve"
    /\ settled.result.text = <<"Hi Alice!">>
    /\ greeting.text = <<"Hi Alice!">>

\* C12: the rendered result area shows exactly one of three views, chosen
\* from error and text alone: the error message when error is non-null,
\* otherwise the greeting when text is non-empty, otherwise the placeholder;
\* isLoading plays no part.
C12_ResultAreaThreeViews ==
    /\ view.area.kind \in {"error", "greeting", "placeholder"}
    /\ greeting.error # Null
         => view.area = [kind |-> "error", shown |-> greeting.error[2]]
    /\ (greeting.error = Null /\ greeting.text # <<>>)
         => view.area = [kind |-> "greeting", shown |-> greeting.text]
    /\ (greeting.error = Null /\ greeting.text = <<>>)
         => view.area = [kind |-> "placeholder", shown |-> <<>>]

C12_Witness ==
    /\ greeting.isLoading
    /\ view.spinner
    /\ view.area.kind = "greeting"
    /\ view.area.shown = <<"Hi Alice!">>

\* C13: the prompt of a request just dispatched is the fixed template filled
\* with the Input Text stripped of its leading and trailing whitespace.
C13_PromptUsesTrimmedName ==
    Dispatched
        => inflight[Len(inflight)].contents =
              <<"Generate a creative, friendly \"Hello World\" style greeting for a person named ">>
              \o Trim(name) \o <<". Keep it concise but enthusiastic.">>

Resolutions == {"resolve", "reject"}

\* C14 as stated: every submission with a non-blank Input Text issues exactly
\* one API call, and nothing else issues one (a blank submission, an edit, a
\* resolution, a failure).
C14_Original ==
    [][/\ (lastEvent'.op \in Submissions /\ ~AllWhitespace(name))
             => Len(inflight') = Len(inflight) + 1
       /\ (lastEvent'.op \in Submissions /\ AllWhitespace(name))
             => inflight' = inflight
       /\ lastEvent'.op \in Resolutions
             => Len(inflight') = Len(inflight) - 1
       /\ lastEvent'.op = "change"
             => inflight' = inflight]_vars

\* C14 amended: a submission with a non-blank Input Text issues exactly one
\* API call when the client construction succeeds and none when it throws;
\* a blank submission, an edit, a resolution and a failure issue none,
\* so a failed call is never retried.
C14_OneCallPerDispatch ==
    [][/\ (lastEvent'.op \in Submissions /\ ~AllWhitespace(name))
             => IF ctorThrows
                THEN inflight' = inflight
                ELSE /\ Len(inflight') = Len(inflight) + 1
                     /\ SubSeq(inflight', 1, Len(inflight)) = inflight
       /\ (lastEvent'.op \in Submissions /\ AllWhitespace(name))
             => inflight' = inflight
       /\ lastEvent'.op \in Resolutions
             => Len(inflight') = Len(inflight) - 1
       /\ lastEvent'.op = "change"
             => inflight' = inflight]_vars

C14_Witness ==
    /\ lastEvent.op = "reject"
    /\ latest = "failed"
    /\ inflight = <<>>
    /\ ~ctorThrows

\* C15: only an edit changes the Input Text; a submission, a successful
\* resolution and a failed resolution leave it as typed, and the input field
\* keeps showing it.
C15_OnlyEditsChangeInput ==
    [][/\ name' # name => lastEvent'.op = "change"
       /\ lastEvent'.op \in Submissions \cup Resolutions
             => (name' = name /\ view'.value = name)]_vars

C15_Witness ==
    /\ lastEvent.op \in Resolutions
    /\ inflight = <<>>
    /\ name # <<>>
    /\ view.value = name

\* C17: when every submission is a click on the enabled button, a submission
\* is dispatched only while no request is in flight, so at most one request
\* is in flight at any time.
C17_ClicksAreSerialized ==
    [][/\ Len(inflight') <= 1
       /\ (lastEvent'.op \in Submissions /\ lastEvent'.accepted)
             => inflight = <<>>]_vars

C17_Witness ==
    /\ lastEvent.op = "click"
    /\ Dispatched
    /\ Len(inflight) = 1
    /\ greeting.text # <<>>
    /\ view.disabled

\* C18: Enter pressed with a non-blank Input Text while a request is in
\* flight is accepted whatever isLoading is, and adds one more request to
\* those in flight, next to the ones already there; two or more requests in
\* flight together, even for the same prompt, are reachable.
C18_EnterReentersWhileInFlight ==
    [][(lastEvent'.op = "enter" /\ ~AllWhitespace(name) /\ inflight # <<>>)
          => /\ lastEvent'.accepted
             /\ Len(inflight') = Len(inflight) + 1
             /\ SubSeq(inflight', 1, Len(inflight)) = inflight
             /\ inflight'[Len(inflight')].contents = Prompt(name)]_vars

C18_Witness ==
    /\ lastEvent.op = "enter"
    /\ Len(inflight) >= 2
    /\ inflight[1] = inflight[2]
    /\ greeting.isLoading

\* the Greeting Result a resolution writes, read off the event
Written(ev) ==
    IF ev.op = "reject"
    THEN [text |-> <<>>, isLoading |-> FALSE,
          error |-> JSString(<<"Failed to generate greeting. Please try again later.">>)]
    ELSE [text |-> IF ev.text[1] = "string" /\ ev.text[2] # <<>>
                   THEN ev.text[2] ELSE <<"Hello World! (Fallback)">>,
          isLoading |-> FALSE, error |-> Null]

\* C19: when requests were in flight together and one of them has resolved,
\* the resolution of the one remaining leaves exactly the Greeting Result it
\* writes itself, in whichever order the two were dispatched: an
\* earlier-dispatched request resolving last overwrites the result of the
\* later one.
C19_LastResolutionWins ==
    [][(lastEvent.op \in Resolutions /\ Len(inflight) = 1 /\ lastEvent'.op \in Resolutions)
          => /\ greeting' = Written(lastEvent')
             /\ inflight' = <<>>]_vars

C19_Witness ==
    /\ lastEvent.op = "resolve"
    /\ lastEvent.text = JSString(<<"Hi Alice!">>)
    /\ latest = "failed"
    /\ inflight = <<>>
    /\ greeting = [text |-> <<"Hi Alice!">>, isLoading |-> FALSE, error |-> Null]

\* C16: provided the API calls in flight eventually return or throw, whenever
\* isLoading is true it is eventually false again; right after a failure the
\* widget is idle (isLoading false), and with a non-blank Input Text the
\* button is enabled and a click is accepted.
C16_LoadingEnds ==
    /\ greeting.isLoading ~> ~greeting.isLoading
    /\ []((lastEvent.op = "reject" \/ ConstructorThrew)
             => /\ ~greeting.isLoading
                /\ ~AllWhitespace(name) => (~view.disabled /\ ENABLED Click))

C16_Witness ==
    /\ lastEvent.op = "reject"
    /\ ~greeting.isLoading
    /\ ~view.disabled
    /\ inflight = <<>>

TypeOK ==
    /\ name \in Strings
    /\ greeting.isLoading \in BOOLEAN
    /\ Len(inflight) <= MaxInFlight
    /\ latest \in {"none", "pending", "succeeded", "failed"}
====
